---- MODULE Spec2Model ----
(***************************************************************************)
(* Model of package switches (src/unnamed/part_000, lines 179-408): the    *)
(* RotarySwitch decoder.  Two goroutines (rotaryHandler, buttonHandler)    *)
(* wait for pin edges, decode them and send events into one buffered       *)
(* channel; a caller thread uses SetLooseMode, SetWrap, Position, Close    *)
(* and receives from the channel.                                          *)
(*                                                                         *)
(* The goroutines are interleaved statement by statement.  Fields are      *)
(* read and written without synchronisation in the source; every such      *)
(* access is a word-sized load or store, so the outcomes of the races are  *)
(* the interleavings of the individual statements, which is what the       *)
(* actions below enumerate.  A panic in any goroutine aborts the process:  *)
(* no action is enabled afterwards.                                        *)
(***************************************************************************)
EXTENDS Integers, Sequences, FiniteSets, TLC

\* ---- bounds of the model ------------------------------------------------
\* capacity given to the event channel (the constructor uses 16)
ChanCap == 2
\* maxPositions handed to NewRotarySwitch
MaxPositions == 2
\* the same two for the shutdown specification, whose behaviours are checked
\* under fairness
CloseCap == 1
ClosePositions == 1

\* ---- program constants --------------------------------------------------
DirectionCCW == 0
DirectionCW == 1
ButtonPress == 2
ButtonRelease == 3
stateInvalid == 15
\* gpio.Level
Low == 0
High == 1

RotarySwitchValue == {DirectionCCW, DirectionCW, ButtonPress, ButtonRelease}
Level == {Low, High}

VARIABLES
    ch,             \* contents of the buffered channel sw.ch
    closed,         \* TRUE once close(sw.ch) has run
    channelSize,
    position,
    wrap_position,
    max_positions,
    st_pin,         \* "pin" or "nil"
    data_pin,       \* "pin" or "nil"
    button_pin,     \* "pin", "INVALID" or "nil"
    state,
    last_button,
    loose,
    terminating,
    rpc,            \* where rotaryHandler is
    bpc,            \* where buttonHandler is ("none": not started)
    button_state,   \* local `state` of buttonHandler: the level last sampled
    cpc,            \* where the caller's Close() is
    script          \* levels <<data, state>> a scripted run puts on the pins
                    \* from now on, the head being the present ones; empty
                    \* when the pins are driven freely

vars == <<ch, closed, channelSize, position, wrap_position, max_positions,
          st_pin, data_pin, button_pin, state, last_button, loose,
          terminating, rpc, bpc, button_state, cpc, script>>

config == <<channelSize, max_positions>>
pins == <<st_pin, data_pin, button_pin>>
rotaryVars == <<position, state, rpc>>
buttonVars == <<last_button, bpc, button_state>>
flags == <<wrap_position, loose>>
closeVars == <<closed, terminating, cpc>>

\* ---- pure parts of the handlers -----------------------------------------

\* lines 328 and 339 read backwards: the two samples <<data, state>> that
\* make the Shift State 0b0110, and the two that make it 0b0011
CWTurn == << <<High, Low>>, <<Low, High>> >>
CCWTurn == << <<Low, Low>>, <<High, High>> >>

Shift_NoMask(s, data, st) ==
    (s * 4) + (IF data = High THEN 1 ELSE 0) + (IF st = High THEN 2 ELSE 0)

\* lines 283-289: shift the previous sample up and or in the new one
Shift(s, data, st) ==
    ((s % 4) * 4) + (IF data = High THEN 1 ELSE 0) + (IF st = High THEN 2 ELSE 0)

IsCW_IgnoresFlag(s, l) == s = 6 \/ s = 7

\* line 328: the condition of the clockwise branch
IsCW(s, l) == s = 6 \/ (l /\ s = 7)

\* line 339: the condition of the counter-clockwise branch
IsCCW_AlsoReversed(s, l) == ~IsCW(s, l) /\ (s = 3 \/ s = 12)

IsCCW_Never(s, l) == FALSE

IsCCW(s, l) == ~IsCW(s, l) /\ s = 3

\* lines 330-336: bound handling after the increment
BoundCW_WrapsLate(p, max, wrap) ==
    IF p > max THEN (IF wrap THEN 0 ELSE max) ELSE p

BoundCW_ClampsBelowMax(p, max, wrap) ==
    IF p >= max THEN (IF wrap THEN 0 ELSE max - 1) ELSE p

BoundCW(p, max, wrap) ==
    IF p >= max THEN (IF wrap THEN 0 ELSE max) ELSE p

BoundCCW_NoClamp(p, max, wrap) ==
    IF p < 0 THEN (IF wrap THEN max - 1 ELSE p) ELSE p

BoundCCW_WrapsToMax(p, max, wrap) ==
    IF p < 0 THEN (IF wrap THEN max ELSE 0) ELSE p

\* lines 341-347: bound handling after the decrement
BoundCCW(p, max, wrap) ==
    IF p < 0 THEN (IF wrap THEN max - 1 ELSE 0) ELSE p

\* lines 364-368: the events a button sample produces (one or none)
ButtonEvent(level, last) ==
    IF level = High /\ last = Low THEN <<ButtonRelease>>
    ELSE IF level = Low /\ last = High THEN <<ButtonPress>>
    ELSE << >>

Full_OffByOne == Len(ch) > channelSize

\* line 319: len(sw.ch) == sw.channelSize
Full == Len(ch) = channelSize

Room_OffByOne == Len(ch) <= channelSize

\* line 363: len(sw.ch) < sw.channelSize
Room == Len(ch) < channelSize

\* lines 337, 348, 365, 367: a send on the buffered channel goes through
\* only while the buffer has a free slot; until then the sender is suspended
CanSend == Len(ch) < channelSize

\* lines 271-273
Position == position

\* a panic in a goroutine aborts the whole process
Crashed == rpc = "panic" \/ bpc = "panic"

\* ---- construction -------------------------------------------------------

NewRotarySwitch_ButtonHigh(buttonPin, maxPositions, capacity) ==
    /\ ch = << >>
    /\ closed = FALSE
    /\ channelSize = capacity
    /\ position = 0
    /\ wrap_position = TRUE
    /\ max_positions = maxPositions
    /\ st_pin = "pin"
    /\ data_pin = "pin"
    /\ button_pin = buttonPin
    /\ state = stateInvalid
    /\ last_button = High
    /\ loose = TRUE
    /\ terminating = FALSE
    /\ rpc = "top"
    /\ bpc = IF button_pin = "INVALID" THEN "none" ELSE "top"
    /\ button_state = High
    /\ cpc = "idle"

\* NewRotarySwitch, lines 384-408; the button pin is a real pin or
\* gpio.INVALID, and buttonHandler is started only for a real pin.  The
\* capacity is a parameter here (line 388 fixes it to 16).
\* button_state is the level of the button pin as last sampled: until the
\* first sample that is the level the pull-up of line 402 holds it at.
NewRotarySwitch(buttonPin, maxPositions, capacity) ==
    /\ ch = << >>
    /\ closed = FALSE
    /\ channelSize = capacity
    /\ position = 0
    /\ wrap_position = TRUE
    /\ max_positions = maxPositions
    /\ st_pin = "pin"
    /\ data_pin = "pin"
    /\ button_pin = buttonPin
    /\ state = stateInvalid
    /\ last_button = Low
    /\ loose = TRUE
    /\ terminating = FALSE
    /\ rpc = "top"
    /\ bpc = IF button_pin = "INVALID" THEN "none" ELSE "top"
    /\ button_state = High
    /\ cpc = "idle"

Init ==
    /\ script = << >>
    /\ \E buttonPin \in {"pin", "INVALID"} :
           NewRotarySwitch(buttonPin, MaxPositions, ChanCap)

\* ---- rotaryHandler ------------------------------------------------------

\* line 279: the call sw.st_pin.WaitForEdge(-1); a nil pin panics
RotaryCall ==
    /\ ~Crashed
    /\ rpc = "top"
    /\ rpc' = IF st_pin = "nil" THEN "panic" ELSE "wait"
    /\ UNCHANGED <<ch, config, script, position, state, flags, pins, buttonVars, closeVars>>

\* line 279: WaitForEdge returns because an edge arrived (or, once the pin
\* has been set to NoEdge, for whatever reason the driver returns)
RotaryEdge ==
    /\ ~Crashed
    /\ rpc = "wait"
    /\ rpc' = "woken"
    /\ UNCHANGED <<ch, config, script, position, state, flags, pins, buttonVars, closeVars>>

RotaryCheck_NoFlag ==
    /\ ~Crashed
    /\ rpc = "woken"
    /\ rpc' = "sample"
    /\ UNCHANGED <<ch, config, script, position, state, flags, pins, buttonVars, closeVars>>

\* lines 280-282
RotaryCheck ==
    /\ ~Crashed
    /\ rpc = "woken"
    /\ rpc' = IF terminating THEN "done" ELSE "sample"
    /\ UNCHANGED <<ch, config, script, position, state, flags, pins, buttonVars, closeVars>>

\* lines 283-289: read the data pin and the state pin (any levels)
RotarySample ==
    /\ ~Crashed
    /\ rpc = "sample"
    /\ IF st_pin = "nil" \/ data_pin = "nil"
          THEN /\ rpc' = "panic"
               /\ state' = state
          ELSE /\ \E data \in Level, st \in Level : state' = Shift(state, data, st)
               /\ rpc' = "len"
    /\ UNCHANGED <<ch, config, script, position, flags, pins, buttonVars, closeVars>>

\* lines 319-323: a full channel ends the iteration
RotaryFull ==
    /\ ~Crashed
    /\ rpc = "len"
    /\ rpc' = IF Full THEN "top" ELSE "classify"
    /\ UNCHANGED <<ch, config, script, position, state, flags, pins, buttonVars, closeVars>>

\* lines 328-329 and 339-340: classify the pattern, step the position
RotaryClassify ==
    /\ ~Crashed
    /\ rpc = "classify"
    /\ IF IsCW(state, loose)
          THEN position' = position + 1 /\ rpc' = "bound"
          ELSE IF IsCCW(state, loose)
                  THEN position' = position - 1 /\ rpc' = "bound"
                  ELSE position' = position /\ rpc' = "top"
    /\ UNCHANGED <<ch, config, script, state, flags, pins, buttonVars, closeVars>>

\* lines 330-336 and 341-347 (state still holds the pattern: 3 is the
\* counter-clockwise branch, anything else the clockwise one)
RotaryBound ==
    /\ ~Crashed
    /\ rpc = "bound"
    /\ position' = IF state = 3
                      THEN BoundCCW(position, max_positions, wrap_position)
                      ELSE BoundCW(position, max_positions, wrap_position)
    /\ rpc' = "send"
    /\ UNCHANGED <<ch, config, script, state, flags, pins, buttonVars, closeVars>>

RotarySend_ResetsToZero ==
    /\ ~Crashed
    /\ rpc = "send"
    /\ IF closed
          THEN /\ rpc' = "panic"
               /\ UNCHANGED <<ch, state>>
          ELSE /\ CanSend
               /\ ch' = Append(ch, IF state = 3 THEN DirectionCCW ELSE DirectionCW)
               /\ state' = 0
               /\ rpc' = "top"
    /\ UNCHANGED <<config, script, position, flags, pins, buttonVars, closeVars>>

\* lines 337-338 and 348-349: the send blocks while the channel is full and
\* panics on a closed channel
RotarySend ==
    /\ ~Crashed
    /\ rpc = "send"
    /\ IF closed
          THEN /\ rpc' = "panic"
               /\ UNCHANGED <<ch, state>>
          ELSE /\ CanSend
               /\ ch' = Append(ch, IF state = 3 THEN DirectionCCW ELSE DirectionCW)
               /\ state' = stateInvalid
               /\ rpc' = "top"
    /\ UNCHANGED <<config, script, position, flags, pins, buttonVars, closeVars>>

RotaryStep ==
    \/ RotaryCall \/ RotaryCheck \/ RotarySample \/ RotaryFull
    \/ RotaryClassify \/ RotaryBound \/ RotarySend

\* ---- buttonHandler ------------------------------------------------------

\* line 358: the call sw.button_pin.WaitForEdge(-1)
ButtonCall ==
    /\ ~Crashed
    /\ bpc = "top"
    /\ bpc' = IF button_pin = "nil" THEN "panic" ELSE "wait"
    /\ UNCHANGED <<ch, config, script, rotaryVars, flags, pins, last_button, button_state, closeVars>>

\* line 358: WaitForEdge returns
ButtonEdge ==
    /\ ~Crashed
    /\ bpc = "wait"
    /\ bpc' = "woken"
    /\ UNCHANGED <<ch, config, script, rotaryVars, flags, pins, last_button, button_state, closeVars>>

\* lines 359-361
ButtonCheck ==
    /\ ~Crashed
    /\ bpc = "woken"
    /\ bpc' = IF terminating THEN "done" ELSE "read"
    /\ UNCHANGED <<ch, config, script, rotaryVars, flags, pins, last_button, button_state, closeVars>>

\* line 362
ButtonRead ==
    /\ ~Crashed
    /\ bpc = "read"
    /\ IF button_pin = "nil"
          THEN bpc' = "panic" /\ button_state' = button_state
          ELSE bpc' = "len" /\ button_state' \in Level
    /\ UNCHANGED <<ch, config, script, rotaryVars, flags, pins, last_button, closeVars>>

ButtonDecide_UpdatesWhenFull ==
    /\ ~Crashed
    /\ bpc = "len"
    /\ IF Room
          THEN IF ButtonEvent(button_state, last_button) # << >>
                  THEN bpc' = "send" /\ last_button' = last_button
                  ELSE bpc' = "top" /\ last_button' = button_state
          ELSE bpc' = "top" /\ last_button' = button_state
    /\ UNCHANGED <<ch, config, script, rotaryVars, flags, pins, button_state, closeVars>>

\* lines 363-370 up to the send: the capacity check and the comparison
ButtonDecide ==
    /\ ~Crashed
    /\ bpc = "len"
    /\ IF Room
          THEN IF ButtonEvent(button_state, last_button) # << >>
                  THEN bpc' = "send" /\ last_button' = last_button
                  ELSE bpc' = "top" /\ last_button' = button_state
          ELSE bpc' = "top" /\ last_button' = last_button
    /\ UNCHANGED <<ch, config, script, rotaryVars, flags, pins, button_state, closeVars>>

ButtonSend_ResetsShift ==
    /\ ~Crashed
    /\ bpc = "send"
    /\ IF closed
          THEN /\ bpc' = "panic"
               /\ UNCHANGED <<ch, last_button, state>>
          ELSE /\ CanSend
               /\ ch' = ch \o ButtonEvent(button_state, last_button)
               /\ last_button' = button_state
               /\ state' = stateInvalid
               /\ bpc' = "top"
    /\ UNCHANGED <<config, script, position, rpc, flags, pins, button_state, closeVars>>

\* lines 365/367 and 369
ButtonSend ==
    /\ ~Crashed
    /\ bpc = "send"
    /\ IF closed
          THEN /\ bpc' = "panic"
               /\ UNCHANGED <<ch, last_button>>
          ELSE /\ CanSend
               /\ ch' = ch \o ButtonEvent(button_state, last_button)
               /\ last_button' = button_state
               /\ bpc' = "top"
    /\ UNCHANGED <<config, script, rotaryVars, flags, pins, button_state, closeVars>>

ButtonStep ==
    \/ ButtonCall \/ ButtonCheck \/ ButtonRead \/ ButtonDecide \/ ButtonSend

\* ---- the caller ---------------------------------------------------------

\* lines 234-236
SetLooseMode(mode) ==
    /\ ~Crashed
    /\ loose' = mode
    /\ UNCHANGED <<ch, config, script, rotaryVars, wrap_position, pins, buttonVars, closeVars>>

SetWrap_ResetsPosition(mode) ==
    /\ ~Crashed
    /\ wrap_position' = mode
    /\ position' = 0
    /\ UNCHANGED <<ch, config, script, state, rpc, loose, pins, buttonVars, closeVars>>

\* lines 244-246
SetWrap(mode) ==
    /\ ~Crashed
    /\ wrap_position' = mode
    /\ UNCHANGED <<ch, config, script, rotaryVars, loose, pins, buttonVars, closeVars>>

Receive_TakesNewest ==
    /\ ~Crashed
    /\ ch # << >>
    /\ ch' = SubSeq(ch, 1, Len(ch) - 1)
    /\ UNCHANGED <<config, script, rotaryVars, flags, pins, buttonVars, closeVars>>

\* a receive from Channel() (lines 224-226) by the consumer
Receive ==
    /\ ~Crashed
    /\ ch # << >>
    /\ ch' = Tail(ch)
    /\ UNCHANGED <<config, script, rotaryVars, flags, pins, buttonVars, closeVars>>

CloseBegin_NoNilCheck ==
    /\ ~Crashed
    /\ cpc = "idle"
    /\ terminating' = TRUE /\ cpc' = "st_in"
    /\ UNCHANGED <<ch, closed, config, script, rotaryVars, flags, pins, buttonVars>>

\* lines 250-253: a call of Close(); with the state pin already nil it is
\* on its way out at once
CloseBegin ==
    /\ ~Crashed
    /\ cpc = "idle"
    /\ IF st_pin = "nil"
          THEN cpc' = "return" /\ UNCHANGED terminating
          ELSE terminating' = TRUE /\ cpc' = "st_in"
    /\ UNCHANGED <<ch, closed, config, script, rotaryVars, flags, pins, buttonVars>>

\* line 251: the return of a Close() that found the state pin nil
CloseReturn ==
    /\ ~Crashed
    /\ cpc = "return"
    /\ cpc' = "idle"
    /\ UNCHANGED <<ch, closed, config, script, rotaryVars, flags, pins, buttonVars, terminating>>

\* line 254: In(PullNoChange, NoEdge) makes a WaitForEdge in progress return
CloseStIn ==
    /\ ~Crashed
    /\ cpc = "st_in"
    /\ rpc' = IF rpc = "wait" THEN "woken" ELSE rpc
    /\ cpc' = "button_in"
    /\ UNCHANGED <<ch, closed, config, script, position, state, flags, pins, buttonVars, terminating>>

\* line 255
CloseButtonIn ==
    /\ ~Crashed
    /\ cpc = "button_in"
    /\ bpc' = IF bpc = "wait" THEN "woken" ELSE bpc
    /\ cpc' = "close"
    /\ UNCHANGED <<ch, closed, config, script, rotaryVars, flags, pins, last_button, button_state, terminating>>

\* line 256
CloseChan ==
    /\ ~Crashed
    /\ cpc = "close"
    /\ closed' = TRUE
    /\ cpc' = "nil_st"
    /\ UNCHANGED <<ch, config, script, rotaryVars, flags, pins, buttonVars, terminating>>

\* line 257
CloseNilSt ==
    /\ ~Crashed
    /\ cpc = "nil_st"
    /\ st_pin' = "nil"
    /\ cpc' = "nil_data"
    /\ UNCHANGED <<ch, closed, config, script, rotaryVars, flags, data_pin, button_pin, buttonVars, terminating>>

\* line 258
CloseNilData ==
    /\ ~Crashed
    /\ cpc = "nil_data"
    /\ data_pin' = "nil"
    /\ cpc' = "nil_button"
    /\ UNCHANGED <<ch, closed, config, script, rotaryVars, flags, st_pin, button_pin, buttonVars, terminating>>

\* line 259
CloseNilButton ==
    /\ ~Crashed
    /\ cpc = "nil_button"
    /\ button_pin' = "nil"
    /\ cpc' = "idle"
    /\ UNCHANGED <<ch, closed, config, script, rotaryVars, flags, st_pin, data_pin, buttonVars, terminating>>

CloseStep ==
    \/ CloseBegin \/ CloseStIn \/ CloseButtonIn \/ CloseChan
    \/ CloseNilSt \/ CloseNilData \/ CloseNilButton \/ CloseReturn

Next ==
    \/ RotaryEdge \/ RotaryStep
    \/ ButtonEdge \/ ButtonStep
    \/ \E mode \in BOOLEAN : SetLooseMode(mode)
    \/ \E mode \in BOOLEAN : SetWrap(mode)
    \/ Receive
    \/ CloseStep

Spec == Init /\ [][Next]_vars

\* ---- the switch without a button, not closed ----------------------------
\* NewRotarySwitch(statePin, dataPin, gpio.INVALID, n): only rotaryHandler
\* runs; the caller sets the flags and receives.
InitRotary ==
    /\ script = << >>
    /\ NewRotarySwitch("INVALID", MaxPositions, ChanCap)

NextRotary ==
    \/ RotaryEdge \/ RotaryStep
    \/ \E mode \in BOOLEAN : SetLooseMode(mode)
    \/ \E mode \in BOOLEAN : SetWrap(mode)
    \/ Receive

SpecRotary == InitRotary /\ [][NextRotary]_vars

\* ---- both loops and the consumer, flags as constructed, not closed ------
InitLoops ==
    /\ script = << >>
    /\ NewRotarySwitch("pin", MaxPositions, ChanCap)

NextLoops ==
    \/ RotaryEdge \/ RotaryStep
    \/ ButtonEdge \/ ButtonStep
    \/ Receive

SpecLoops == InitLoops /\ [][NextLoops]_vars

\* ---- both loops and Close, with the scheduler's fairness ------------------
\* A goroutine that can take a step is eventually scheduled, and a Close()
\* that has started runs on; nothing makes an edge arrive or the caller call
\* Close().  The consumer is as slow as can be: it does not receive.
InitClose ==
    /\ script = << >>
    /\ \E buttonPin \in {"pin", "INVALID"} :
           NewRotarySwitch(buttonPin, ClosePositions, CloseCap)

CloseRun ==
    \/ CloseStIn \/ CloseButtonIn \/ CloseChan
    \/ CloseNilSt \/ CloseNilData \/ CloseNilButton \/ CloseReturn

NextClose ==
    \/ RotaryEdge \/ RotaryStep
    \/ ButtonEdge \/ ButtonStep
    \/ CloseStep

SpecClose ==
    /\ InitClose /\ [][NextClose]_vars
    /\ WF_vars(RotaryStep) /\ WF_vars(ButtonStep) /\ WF_vars(CloseRun)

\* ---- a scripted run: 24 positions, flags as constructed, nobody receives ---
\* The pins start at the levels their pull-ups hold them at (lines 385-386)
\* and then take the samples of three clockwise turns and one
\* counter-clockwise turn, one sample per edge of the state pin; each edge
\* arrives while rotaryHandler waits for it.  The button, if there is one,
\* is not touched, so buttonHandler stays in its WaitForEdge.
ScenarioCapacity == 16

ScenarioScript ==
    << <<High, High>> >> \o CWTurn \o CWTurn \o CWTurn \o CCWTurn

InitScenario ==
    /\ script = ScenarioScript
    /\ \E buttonPin \in {"pin", "INVALID"} :
           NewRotarySwitch(buttonPin, 24, ScenarioCapacity)

\* line 279: the next edge of the script arrives
ScenarioEdge ==
    /\ ~Crashed
    /\ rpc = "wait"
    /\ Len(script) > 1
    /\ script' = Tail(script)
    /\ rpc' = "woken"
    /\ UNCHANGED <<ch, config, position, state, flags, pins, buttonVars, closeVars>>

\* lines 283-289 reading the levels the script has put on the pins
ScenarioSample ==
    /\ script # << >>
    /\ RotarySample
    /\ state' = Shift(state, Head(script)[1], Head(script)[2])

NextScenario ==
    \/ ScenarioEdge
    \/ RotaryCall \/ RotaryCheck \/ ScenarioSample
    \/ RotaryFull \/ RotaryClassify \/ RotaryBound \/ RotarySend
    \/ ButtonCall

SpecScenario == InitScenario /\ [][NextScenario]_vars

\* ---- both loops, wrap as constructed, nobody receives --------------------
\* The channel keeps every event that was ever enqueued, so the step events
\* in it are the steps taken since construction.
NextCount ==
    \/ RotaryEdge \/ RotaryStep
    \/ ButtonEdge \/ ButtonStep
    \/ \E mode \in BOOLEAN : SetLooseMode(mode)

SpecCount == InitLoops /\ [][NextCount]_vars

\* clockwise step events minus counter-clockwise step events in a sequence
\* of channel values (lines 189-192)
RECURSIVE StepSum(_)
StepSum(s) ==
    IF s = << >> THEN 0
    ELSE StepSum(Tail(s)) + (IF Head(s) = DirectionCW THEN 1
                             ELSE IF Head(s) = DirectionCCW THEN -1 ELSE 0)

\* the button events among a sequence of channel values (lines 191-192)
IsButtonEvent(e) == e \in {ButtonPress, ButtonRelease}

ButtonEvents(s) == SelectSeq(s, IsButtonEvent)

\* ---- both loops and Close() called any number of times, no fairness -------
SpecShutdown == Init /\ [][NextClose]_vars

TypeOK ==
    /\ ch \in Seq(RotarySwitchValue) /\ Len(ch) <= channelSize
    /\ closed \in BOOLEAN /\ terminating \in BOOLEAN
    /\ position \in -1 .. max_positions + 1
    /\ state \in 0 .. 15
    /\ last_button \in Level /\ button_state \in Level
    /\ rpc \in {"top", "wait", "woken", "sample", "len", "classify", "bound", "send", "done", "panic"}
    /\ bpc \in {"none", "top", "wait", "woken", "read", "len", "send", "done", "panic"}
    /\ cpc \in {"idle", "st_in", "button_in", "close", "nil_st", "nil_data", "nil_button", "return"}
    /\ script \in Seq(Level \X Level)

\* ---- claims ---------------------------------------------------------------

\* C1: an edge whose sample makes the Shift State 0b0110 takes the clockwise
\* branch: the position is incremented (line 329), under wrap the bound
\* handling turns the incremented value into its remainder mod maxPositions,
\* and the send that follows appends exactly one DirectionCW.
C1_Claim ==
    [][ /\ (rpc = "classify" /\ state = 6 /\ rpc' # rpc)
            => (rpc' = "bound" /\ position' = position + 1 /\ ch' = ch)
        /\ (rpc = "bound" /\ state = 6 /\ wrap_position /\ rpc' # rpc)
            => (rpc' = "send" /\ position' = position % max_positions /\ ch' = ch)
        /\ (rpc = "send" /\ state = 6 /\ rpc' = "top")
            => ch' = Append(ch, DirectionCW)
      ]_vars

\* C2: an edge whose sample makes the Shift State 0b0011 takes the
\* counter-clockwise branch: the position is decremented (line 340), under
\* wrap the bound handling turns the decremented value into its remainder
\* mod maxPositions (0 wraps to maxPositions-1), the send that follows
\* appends exactly one DirectionCCW, and no other step of the loop touches
\* the channel.
C2_StepCCW ==
    [][ /\ (rpc = "classify" /\ state = 3 /\ rpc' # rpc)
            => (rpc' = "bound" /\ position' = position - 1 /\ ch' = ch)
        /\ (rpc = "bound" /\ state = 3 /\ wrap_position /\ rpc' # rpc)
            => (rpc' = "send" /\ position' = position % max_positions /\ ch' = ch)
        /\ (rpc = "send" /\ state = 3 /\ rpc' = "top")
            => ch' = Append(ch, DirectionCCW)
        /\ (rpc # "send" /\ rpc' # rpc) => ch' = ch
      ]_vars

\* a counter-clockwise step taken at position 0 under wrap has been sent
C2_Witness ==
    /\ rpc = "top" /\ state = stateInvalid /\ wrap_position
    /\ ch # << >> /\ ch[Len(ch)] = DirectionCCW
    /\ position = max_positions - 1

RotaryAtRest == rpc \in {"top", "wait", "woken", "done"}

\* C4: whenever wrap-on-bound is enabled and the rotary loop is between two
\* iterations, 0 <= Position < maxPositions.
C4_Claim ==
    (wrap_position /\ RotaryAtRest) => (0 <= position /\ position < max_positions)

\* C5: with wrap-on-bound disabled, after any sequence of steps Position()
\* returns a value between 0 and maxPositions-1.
C5_Claim ==
    (~wrap_position /\ RotaryAtRest) => (0 <= Position /\ Position <= max_positions - 1)

\* C6: no decoder loop is ever suspended on a channel send.
C6_Claim ==
    (~closed /\ Len(ch) = channelSize) => (rpc # "send" /\ bpc # "send")

\* C7 as stated: an edge that completes a recognised pattern while the
\* channel is at capacity still goes on to the position update.
C7_Claim ==
    [][ (/\ rpc = "len" /\ Len(ch) = channelSize
         /\ (state = 6 \/ state = 3 \/ (loose /\ state = 7))
         /\ rpc' # rpc)
        => rpc' = "classify" ]_vars

\* C7 amended: an edge that finds the channel at capacity is dropped whole:
\* the iteration ends with Position, the Shift State and the channel
\* unchanged; Position changes only in the classify and bound steps, which
\* the capacity check guards.
C7_DropKeepsPosition ==
    [][ /\ (rpc = "len" /\ Len(ch) = channelSize /\ rpc' # rpc)
            => (rpc' = "top" /\ position' = position /\ ch' = ch /\ state' = state)
        /\ (position' # position) => (rpc = "classify" \/ rpc = "bound")
        /\ (rpc' = "classify" /\ rpc # "classify")
            => (rpc = "len" /\ Len(ch) < channelSize)
      ]_vars

\* the loop has dropped an edge that completed a recognised pattern
C7_Witness ==
    rpc = "top" /\ Len(ch) = channelSize /\ (state = 6 \/ state = 3)

\* C8 as stated: every iteration of buttonHandler that gets past the read
\* leaves Last Button Level equal to the level just read.
C8_Claim ==
    [][ ((bpc = "len" \/ bpc = "send") /\ bpc' = "top")
        => last_button' = button_state ]_vars

\* C8 amended: Last Button Level is set to the level just read only when the
\* channel was below capacity at the check (right away when the sample
\* produces no event, after the send otherwise); at capacity the iteration
\* ends with Last Button Level and the channel unchanged.
C8_LastButtonOnlyWithRoom ==
    [][ /\ (bpc = "len" /\ Len(ch) = channelSize /\ bpc' # bpc)
            => (bpc' = "top" /\ last_button' = last_button /\ ch' = ch)
        /\ (bpc = "len" /\ Len(ch) < channelSize /\ bpc' # bpc)
            => \/ (bpc' = "top" /\ last_button' = button_state /\ ch' = ch)
               \/ (bpc' = "send" /\ last_button' = last_button /\ ch' = ch)
        /\ (bpc = "send" /\ bpc' = "top") => last_button' = button_state
        /\ (last_button' # last_button) => (bpc = "len" \/ bpc = "send")
      ]_vars

\* a sample was dropped at capacity and Last Button Level kept the old level
C8_Witness ==
    bpc = "top" /\ Len(ch) = channelSize /\ last_button # button_state

\* C9: a sample that differs from the level sampled before it (the pulled-up
\* High before the first sample) is compared as a press when it is Low and
\* as a release when it is High, and a sample equal to the one before it as
\* nothing.
C9_Claim ==
    [][ (bpc = "read" /\ bpc' = "len")
        => ButtonEvent(button_state', last_button) =
              (IF button_state' = button_state THEN << >>
               ELSE IF button_state' = Low THEN <<ButtonPress>>
               ELSE <<ButtonRelease>>) ]_vars

\* C10: a decoder loop that is in its edge-wait when Close() has set the
\* termination flag leaves the wait only to check the flag and return,
\* without sampling a pin, touching the decoder state or sending; it does
\* return (unless a panic of the other loop aborts the process first), and
\* when every running loop is in its edge-wait the shutdown is clean: all
\* loops return and the channel is closed.  A Close() that has started
\* closes the channel; once the channel is closed nothing is enqueued any
\* more; a loop returns only with the termination flag set.
C10_CloseWhileWaiting ==
    /\ [][ /\ (rpc = "wait" /\ terminating /\ rpc' # rpc) => rpc' = "woken"
           /\ (rpc = "woken" /\ terminating /\ rpc' # rpc)
                => (rpc' = "done" /\ UNCHANGED <<state, position, ch>>)
           /\ (bpc = "wait" /\ terminating /\ bpc' # bpc) => bpc' = "woken"
           /\ (bpc = "woken" /\ terminating /\ bpc' # bpc)
                => (bpc' = "done" /\ UNCHANGED <<last_button, button_state, ch>>)
           /\ closed => Len(ch') <= Len(ch)
           /\ (rpc' = "done" /\ rpc # "done") => terminating
           /\ (bpc' = "done" /\ bpc # "done") => terminating
         ]_vars
    /\ (cpc = "st_in" /\ rpc = "wait") ~> (rpc = "done" \/ Crashed)
    /\ (cpc = "st_in" /\ bpc = "wait") ~> (bpc = "done" \/ Crashed)
    /\ (cpc = "st_in" /\ rpc = "wait" /\ bpc \in {"wait", "none"})
          ~> (rpc = "done" /\ bpc \in {"done", "none"} /\ closed /\ ~Crashed)
    /\ (cpc = "st_in") ~> closed

\* both loops were in their edge-wait during Close() and have returned, the
\* channel is closed and the pins are released
C10_Witness ==
    /\ rpc = "done" /\ bpc = "done" /\ closed /\ cpc = "idle"
    /\ st_pin = "nil" /\ button_pin = "nil" /\ state = stateInvalid

\* C11: the channel is a queue: a send puts its event behind everything
\* already buffered, a receive takes the oldest buffered event, and no other
\* step touches the contents.  rotaryHandler sends the event of the step it
\* has just confirmed before it samples again, and buttonHandler likewise,
\* so the events of each loop leave the channel in the order the loop
\* produced them, however the two loops and the consumer interleave.
C11_FifoPerProducer ==
    [][ \/ ch' = ch
        \/ /\ rpc = "send" /\ rpc' = "top" /\ bpc' = bpc
           /\ ch' = Append(ch, IF state = 3 THEN DirectionCCW ELSE DirectionCW)
        \/ /\ bpc = "send" /\ bpc' = "top" /\ rpc' = rpc
           /\ ch' = Append(ch, IF button_state = Low THEN ButtonPress ELSE ButtonRelease)
        \/ /\ ch # << >> /\ rpc' = rpc /\ bpc' = bpc
           /\ ch' = Tail(ch)
      ]_vars

\* two different step events of the rotary loop are buffered one behind the
\* other
C11_Witness ==
    /\ Len(ch) = 2
    /\ {ch[1], ch[2]} = {DirectionCW, DirectionCCW}

\* C12: a step that changes the loose flag or the wrap flag changes nothing
\* else (Position, Shift State, Last Button Level, the channel, the other
\* flag); only such a step changes a flag; and the rotary loop reads the
\* flags when it classifies and when it handles the bound, so an edge
\* processed after the call classifies 0b0111 by the flag's new value and
\* bounds Position by the new wrap value.
C12_SettersOnlyTheirFlag ==
    [][ /\ loose' # loose =>
             UNCHANGED <<ch, config, rotaryVars, wrap_position, pins, buttonVars, closeVars>>
        /\ wrap_position' # wrap_position =>
             UNCHANGED <<ch, config, rotaryVars, loose, pins, buttonVars, closeVars>>
        /\ rpc' # rpc => UNCHANGED flags
        /\ (rpc = "classify" /\ rpc' # rpc /\ state = 7) =>
             IF loose THEN rpc' = "bound" /\ position' = position + 1
                      ELSE rpc' = "top" /\ position' = position
        /\ (rpc = "bound" /\ rpc' # rpc /\ state # 3) =>
             position' = (IF position >= max_positions
                          THEN (IF wrap_position THEN 0 ELSE max_positions)
                          ELSE position)
        /\ (rpc = "bound" /\ rpc' # rpc /\ state = 3) =>
             position' = (IF position < 0
                          THEN (IF wrap_position THEN max_positions - 1 ELSE 0)
                          ELSE position)
      ]_vars

\* both flags have been switched off by the setters and the loop has just
\* bounded a clockwise step by the no-wrap rule
C12_Witness ==
    /\ ~loose /\ ~wrap_position
    /\ rpc = "send" /\ state = 6
    /\ position = max_positions

\* C13: the state NewRotarySwitch returns: Shift State is the sentinel, Last
\* Button Level is low, Position is 0, both flags are set, the termination
\* flag is clear and the channel is open and empty; the channel never holds
\* more than the capacity it was made with, which never changes; and a
\* button loop exists exactly when a button pin was supplied, none being
\* started later.
C13_AfterConstruction ==
    /\ state = stateInvalid
    /\ last_button = Low
    /\ position = 0
    /\ wrap_position = TRUE
    /\ loose = TRUE
    /\ terminating = FALSE
    /\ closed = FALSE
    /\ ch = << >>
    /\ rpc = "top"
    /\ (bpc = "none") <=> (button_pin = "INVALID")
    /\ (bpc = "top") <=> (button_pin = "pin")
    /\ [](Len(ch) <= channelSize)
    /\ [][UNCHANGED config]_vars
    /\ [][(bpc = "none") <=> (bpc' = "none")]_vars

\* the switch as constructed without a button pin: no button loop
C13_Witness ==
    /\ button_pin = "INVALID" /\ bpc = "none"
    /\ rpc = "top" /\ cpc = "idle"
    /\ state = stateInvalid /\ position = 0 /\ ch = << >>
    /\ last_button = Low /\ wrap_position /\ loose /\ ~terminating

\* C14: with 24 positions, both flags set, capacity 16 and nobody receiving,
\* the samples of three clockwise turns and one counter-clockwise turn put
\* StepCW, StepCW, StepCW, StepCCW on the channel in that order, and when the
\* last edge has been processed Position is 2.
C14_Scenario ==
    /\ Len(ch) <= 4
    /\ ch = SubSeq(<<DirectionCW, DirectionCW, DirectionCW, DirectionCCW>>, 1, Len(ch))
    /\ (Len(script) = 1 /\ rpc \in {"top", "wait"}) =>
           /\ ch = <<DirectionCW, DirectionCW, DirectionCW, DirectionCCW>>
           /\ position = 2

\* the script has run out and the handler waits for an edge again
C14_Witness ==
    /\ max_positions = 24 /\ channelSize = 16 /\ wrap_position /\ loose
    /\ Len(script) = 1 /\ rpc = "wait"
    /\ ch = <<DirectionCW, DirectionCW, DirectionCW, DirectionCCW>>
    /\ position = 2

\* C15: a counter-clockwise pattern met at Position 0 is a confirmed step
\* whatever the wrap flag is; with wrap-on-bound off the bound handling
\* brings the decremented Position back to 0 without touching the channel,
\* and the send that follows appends exactly one StepCCW and leaves
\* Position alone.  The value below zero is never the one an event is sent
\* with.
C15_NoWrapFloor ==
    /\ [][ /\ (rpc = "classify" /\ rpc' # rpc /\ state = 3 /\ position = 0) =>
                (rpc' = "bound" /\ position' = -1 /\ ch' = ch)
           /\ (rpc = "bound" /\ rpc' # rpc /\ state = 3 /\ position < 0 /\ ~wrap_position) =>
                (rpc' = "send" /\ position' = 0 /\ ch' = ch /\ state' = state)
           /\ (rpc = "send" /\ rpc' = "top" /\ state = 3) =>
                (position' = position /\ ch' = Append(ch, DirectionCCW))
         ]_vars
    /\ [](rpc \in {"send", "top", "wait", "woken"} => position >= 0)

\* wrap-on-bound is off and a counter-clockwise step taken at Position 0 is
\* about to be bounded
C15_Witness ==
    /\ ~wrap_position
    /\ rpc = "bound" /\ state = 3 /\ position = -1

\* C16 as stated: an edge enqueues exactly one event iff the Shift State it
\* produced is a recognised pattern, so an iteration that ends without a
\* send has produced a Shift State that is not one.
C16_Claim ==
    [][ (rpc \in {"len", "classify"} /\ rpc' = "top" /\ ch' = ch)
        => ~(state = 6 \/ (loose /\ state = 7) \/ state = 3) ]_vars

\* C16 amended: an iteration goes on to the send iff the channel is below
\* capacity at the capacity check and the Shift State is a recognised
\* pattern at the classification; a completed send appends exactly one
\* event and no other step of the loop touches the channel; an iteration
\* that ends at the capacity check or at the classification leaves
\* Position, the channel and the Shift State as the sample left them.
C16_OneEventIffRecognisedAndRoom ==
    [][ /\ (rpc = "len" /\ rpc' # rpc) =>
              IF Len(ch) = channelSize
              THEN rpc' = "top" /\ position' = position /\ ch' = ch /\ state' = state
              ELSE rpc' = "classify" /\ position' = position /\ ch' = ch /\ state' = state
        /\ (rpc = "classify" /\ rpc' # rpc) =>
              IF state = 6 \/ (loose /\ state = 7) \/ state = 3
              THEN rpc' = "bound" /\ ch' = ch /\ state' = state
              ELSE rpc' = "top" /\ position' = position /\ ch' = ch /\ state' = state
        /\ (rpc = "bound" /\ rpc' # rpc) => (rpc' = "send" /\ ch' = ch /\ state' = state)
        /\ (rpc = "send" /\ rpc' = "top") =>
              (Len(ch') = Len(ch) + 1 /\ SubSeq(ch', 1, Len(ch)) = ch /\ position' = position)
        /\ (rpc # "send" /\ rpc' # rpc) => ch' = ch
      ]_vars

\* an edge has produced the counter-clockwise pattern with the channel at
\* capacity and the iteration is over: nothing was sent and the pattern
\* stays in the Shift State
C16_Witness ==
    /\ rpc = "top"
    /\ state = 3
    /\ Len(ch) = channelSize
    /\ position = 0

\* C17 as stated: the Shift State takes the value 0xF only by the reset that
\* goes with an enqueued step event, so the shift of a sample never leaves
\* it at 0xF.
C17_Claim ==
    [][ (rpc = "sample" /\ rpc' = "len") => state' # stateInvalid ]_vars

\* C17 amended: the shift keeps the old lower two bits as the new upper two
\* and puts the data level in bit 0 and the state-pin level in bit 1, so the
\* Shift State stays in 0..15; the send of a step event sets it to 0xF; no
\* other step writes it; and apart from that reset the value 0xF arises
\* only when the sample 0b11 is shifted onto lower bits 0b11, an edge that
\* enqueues nothing.
C17_ShiftAndReset ==
    /\ [][ /\ (rpc = "sample" /\ rpc' = "len") =>
                /\ \E data, st \in {0, 1} : state' = ((state % 4) * 4) + data + (2 * st)
                /\ state' \div 4 = state % 4
                /\ state' = stateInvalid => state % 4 = 3
                /\ ch' = ch /\ position' = position
           /\ (rpc = "send" /\ rpc' = "top") =>
                (state' = stateInvalid /\ Len(ch') = Len(ch) + 1)
           /\ state' # state =>
                ((rpc = "sample" /\ rpc' = "len") \/ (rpc = "send" /\ rpc' = "top"))
           /\ (rpc = "classify" /\ state = stateInvalid /\ rpc' # rpc) =>
                (rpc' = "top" /\ ch' = ch /\ position' = position)
         ]_vars
    /\ [](state \in 0 .. 15)

\* the first edge after construction has sampled both pins high: the
\* Shift State is 0xF again and nothing has been enqueued
C17_Witness ==
    /\ rpc = "len"
    /\ state = stateInvalid
    /\ ch = << >> /\ position = 0

C19_SingleWriter ==
    [][ /\ (position' # position \/ state' # state) =>
              (rpc' # rpc /\ UNCHANGED buttonVars)
        /\ last_button' # last_button =>
              (bpc' # bpc /\ UNCHANGED rotaryVars)
        /\ bpc' # bpc => UNCHANGED <<position, state>>
        /\ rpc' # rpc => UNCHANGED last_button
        /\ position' # position =>
              \/ /\ rpc = "classify" /\ rpc' = "bound"
                 /\ (state = 6 \/ (loose /\ state = 7) \/ state = 3)
              \/ rpc = "bound" /\ rpc' = "send"
      ]_vars

\* each loop has written its own field: a release has set Last Button Level
\* and a step has moved Position
C19_Witness ==
    /\ last_button = High
    /\ position = 1
    /\ rpc = "top" /\ bpc = "top"

\* C20: the send of a step event leaves the Shift State at 0xF, and nothing
\* writes the Shift State until the next edge is sampled; whatever levels
\* that edge samples, the shifted state has upper bits 0b11 (it is one of
\* 12..15), and an edge whose Shift State has upper bits 0b11 is never
\* classified as a step: its iteration ends with Position and the channel
\* unchanged.  So the edge right after a step event is not a step, and an
\* edge that is a step never has upper bits 0b11.
C20_NoRetrigger ==
    /\ [][ /\ (rpc = "send" /\ rpc' = "top") => (state' = stateInvalid /\ state' % 4 = 3)
           /\ (rpc = "sample" /\ rpc' = "len" /\ state % 4 = 3) => state' \in 12 .. 15
           /\ (rpc \in {"len", "classify"} /\ rpc' # rpc /\ state \div 4 = 3) =>
                (rpc' \in {"classify", "top"} /\ position' = position /\ ch' = ch)
           /\ (rpc \in {"top", "wait", "woken"} /\ rpc' # rpc) =>
                (state' = state /\ position' = position /\ ch' = ch)
           /\ rpc' = rpc => (state' = state /\ position' = position)
         ]_vars
    /\ [](rpc \in {"bound", "send"} => state \div 4 # 3)

\* the edge after a clockwise step has sampled data high and state low and
\* has been passed over: one event, Position 1, the sample kept for the
\* next edge
C20_Witness ==
    /\ rpc = "top"
    /\ state = 13
    /\ ch = <<DirectionCW>> /\ position = 1

\* C21: Position changes only in the increment or decrement of an edge
\* classified as a step and in the bound handling of that edge, and such an
\* edge goes on to the send, which appends one step event; an iteration
\* that ends at the capacity check or at the classification leaves Position
\* and the channel alone.  With wrap-on-bound enabled throughout and every
\* enqueued event still in the channel, Position equals (StepCW enqueued -
\* StepCCW enqueued) mod maxPositions whenever the handler is outside the
\* bound handling and the send, and at the send it already counts the
\* event about to be enqueued.
C21_PositionCountsSteps ==
    /\ [][ /\ position' # position =>
                \/ rpc = "classify" /\ rpc' = "bound"
                \/ rpc = "bound" /\ rpc' = "send"
           /\ (rpc = "bound" /\ rpc' # rpc) => (rpc' = "send" /\ ch' = ch)
           /\ (rpc = "send" /\ rpc' = "top") =>
                /\ position' = position
                /\ \E e \in {DirectionCW, DirectionCCW} : ch' = Append(ch, e)
           /\ (rpc \in {"len", "classify"} /\ rpc' = "top") =>
                (position' = position /\ ch' = ch)
         ]_vars
    /\ [](rpc \notin {"bound", "send", "panic"} =>
             position = StepSum(ch) % max_positions)
    /\ [](rpc = "send" =>
             position = (StepSum(ch) + (IF state = 3 THEN -1 ELSE 1)) % max_positions)

\* one counter-clockwise step from Position 0 has been enqueued and the
\* handler waits for the next edge
C21_Witness ==
    /\ wrap_position
    /\ rpc = "wait"
    /\ StepSum(ch) = -1
    /\ position = max_positions - 1

\* C22: Last Button Level starts low; it changes value only in a completed
\* send of buttonHandler, every completed send of buttonHandler changes it,
\* and the event sent is ButtonRelease when the new level is high and
\* ButtonPress when it is low; no other step enqueues a button event.  So
\* the button events enqueued alternate, beginning with ButtonRelease,
\* whatever was read and whatever was dropped at capacity: the button
\* events in the channel never hold two equal neighbours, and the newest
\* of them is the one that goes with the present Last Button Level.
C22_ButtonEventsAlternate ==
    /\ last_button = Low
    /\ [][ /\ last_button' # last_button =>
                /\ bpc = "send" /\ bpc' = "top"
                /\ ch' = Append(ch, IF last_button' = High THEN ButtonRelease
                                                         ELSE ButtonPress)
           /\ (bpc = "send" /\ bpc' = "top") =>
                (last_button' # last_button /\ Len(ch') = Len(ch) + 1)
           /\ ButtonEvents(ch') # ButtonEvents(ch) =>
                \/ bpc = "send" /\ bpc' = "top"
                \/ ch # << >> /\ ch' = Tail(ch) /\ bpc' = bpc
         ]_vars
    /\ [](LET b == ButtonEvents(ch)
          IN  /\ \A i \in 1 .. Len(b) - 1 : b[i] # b[i + 1]
              /\ b # << >> =>
                   b[Len(b)] = (IF last_button = High THEN ButtonRelease
                                                      ELSE ButtonPress))

\* a release and then a press have been enqueued and nothing else
C22_Witness ==
    /\ ch = <<ButtonRelease, ButtonPress>>
    /\ last_button = Low
    /\ bpc = "top"

\* C23: whatever way Close() interleaves with a loop that has passed its
\* termination check, no loop panics: none sends on the closed channel and
\* none calls WaitForEdge or Read on a pin field Close() has set to nil.
C23_Claim ==
    rpc # "panic" /\ bpc # "panic"

\* C24: a Close() called when an earlier one has run to its end (the state
\* pin is nil) only returns: between the call and the return nothing but
\* the caller's own position changes, and from then on no step closes the
\* channel again, changes the termination flag or touches a pin field.  No
\* step of any Close() changes Position, the Shift State, Last Button
\* Level, the flags or the channel contents, so Position() still returns
\* the Position the loop left.
C24_SecondCloseReturns ==
    /\ [][ /\ (cpc = "idle" /\ st_pin = "nil" /\ cpc' # cpc) =>
                /\ cpc' = "return"
                /\ UNCHANGED <<ch, closed, config, rotaryVars, flags, pins, buttonVars, terminating>>
           /\ (cpc = "return" /\ cpc' # cpc) =>
                /\ cpc' = "idle"
                /\ UNCHANGED <<ch, closed, config, rotaryVars, flags, pins, buttonVars, terminating>>
           /\ (cpc \in {"idle", "return"} /\ st_pin = "nil") =>
                UNCHANGED <<closed, terminating, pins>>
           /\ cpc' # cpc =>
                UNCHANGED <<Position, state, last_button, ch, flags, config>>
         ]_vars
    /\ [](cpc = "return" =>
             (closed /\ terminating /\ st_pin = "nil" /\ data_pin = "nil" /\ button_pin = "nil"))

\* a second Close() is returning: the channel is closed, the loop has
\* returned and Position is still the one the last step left
C24_Witness ==
    /\ cpc = "return"
    /\ closed /\ st_pin = "nil"
    /\ rpc = "done"
    /\ Position = 1 /\ ch = <<DirectionCW>>
====
